---- MODULE Spec2Model ----
(***************************************************************************)
(* A model of src/Shazam.js: the SignatureGenerator (sample ring, FFT      *)
(* ring, spread ring, chunked signature emission) and the DecodedMessage   *)
(* binary codec.  JavaScript arrays are 0-based; the sequences below are   *)
(* 1-based, so JavaScript index k is sequence index k + 1.  An exception   *)
(* thrown by the code is the field "thrown" of the value an operator       *)
(* returns; the state it carries is the state at the throw.                *)
(***************************************************************************)
EXTENDS Integers, Sequences, FiniteSets, TLC

VARIABLES
    inputPendingProcessing,  \* SignatureGenerator.inputPendingProcessing
    samplesProcessed,        \* SignatureGenerator.samplesProcessed
    ringBufferOfSamples,     \* SignatureGenerator.ringBufferOfSamples
    fftOutputs,              \* SignatureGenerator.fftOutputs
    spreadFftsOutput,        \* SignatureGenerator.spreadFftsOutput
    nextSignature,           \* SignatureGenerator.nextSignature
    feeds,                   \* number of feedInput calls so far
    lastCall,                \* what the last call on the generator did
    written,                 \* history: the samples written to the sample ring
    taken,                   \* history: numberSamples of the Signatures returned
    crc32Available,          \* the runtime's crypto library has a 'crc32' digest
    codecSig,                \* the Signature handed to encodeToBinary
    encoded,                 \* what encodeToBinary(codecSig) gave
    decoded,                 \* what decodeFromBinary gave for encoded.bytes
    tampered,                \* ... and for encoded.bytes with one byte changed
    parsed,                  \* what decodeFromBinary gave for a built container
    pair,                    \* two generators, each with the calls made on it
    candidate                \* the candidate peak the detector last reached

genVars == <<inputPendingProcessing, samplesProcessed, ringBufferOfSamples,
             fftOutputs, spreadFftsOutput, nextSignature>>

driverVars == <<feeds, lastCall, written, taken, pair, candidate>>

codecVars == <<crc32Available, codecSig, encoded, decoded, tampered, parsed>>

vars == <<inputPendingProcessing, samplesProcessed, ringBufferOfSamples,
          fftOutputs, spreadFftsOutput, nextSignature, feeds, lastCall, written,
          taken, crc32Available, codecSig, encoded, decoded, tampered, parsed,
          pair, candidate>>

----------------------------------------------------------------------------
(* Program constants *)

HopSize == 128
SampleRingSize == 2048
FrameRingSize == 256
SampleRate16000 == 16000
MAX_PEAKS == 255
\* MAX_TIME_SECONDS = 3.1 at 16000 Hz: n / 16000 < 3.1 iff n < 49600
MaxTimeSamples == 49600
RecognitionDelay == 46

----------------------------------------------------------------------------
(* Bounds of the model *)

MaxCalls == 400      \* getNextSignature calls in one behaviour
MaxFeeds == 2        \* feedInput calls in one behaviour
MaxRingHops == 20    \* doFft calls in one behaviour of SpecRing
MaxPairCalls == 3    \* calls on each generator in one behaviour of SpecPair

----------------------------------------------------------------------------
(* JavaScript arithmetic *)

\* a % b of JavaScript: the remainder has the sign of the dividend
JsRem(a, b) == IF a >= 0 THEN a % b ELSE -((-a) % b)

Min(a, b) == IF a <= b THEN a ELSE b
Max(a, b) == IF a >= b THEN a ELSE b

\* Array.prototype.slice(from, to) for 0 <= from, to
JsSlice(arr, from, to) ==
    LET t == Min(to, Len(arr)) IN
    IF from >= t THEN <<>> ELSE SubSeq(arr, from + 1, t)

\* Array.prototype.splice(start, deleteCount, ...items): the array afterwards
JsSplice(arr, start, deleteCount, items) ==
    LET s == Min(Max(start, 0), Len(arr))
        d == Min(Max(deleteCount, 0), Len(arr) - s)
    IN  SubSeq(arr, 1, s) \o items \o SubSeq(arr, s + d + 1, Len(arr))

----------------------------------------------------------------------------
(* RingBuffer *)

\* A frame of the FFT or spread ring: ref identifies the array object (0: the
\* one array `new Array(1025).fill(0)` that every slot of a new ring shares),
\* kind abstracts its values: "zero" (all 0), "floor" (all bins at the 1e-10
\* clamp: the spectrum of an all-zero window), "signal" (anything else).
ZeroFrame == [ref |-> 0, kind |-> "zero"]

RingBuffer(bufferSize, defaultValue) ==
    [store |-> [i \in 1..bufferSize |-> defaultValue],
     position |-> 0, bufferSize |-> bufferSize, numWritten |-> 0]

append(ring, value) ==
    [ring EXCEPT !.store = [@ EXCEPT ![ring.position + 1] = value],
                 !.position = (ring.position + 1) % ring.bufferSize,
                 !.numWritten = @ + 1]

\* arr[k] of JavaScript: undefined outside 0..length-1
Defined(ring, k) == k >= 0 /\ k < Len(ring.store)

----------------------------------------------------------------------------
(* SignatureGenerator *)

\* new DecodedMessage() as the generator sets it up: the peak map is keyed by
\* the band ids 0..3 the detector uses as property names
NewSignature == [sampleRateHz |-> SampleRate16000, numberSamples |-> 0,
                 frequencyBandToSoundPeaks |-> <<>>]

\* The generator as a value the methods below transform.  thrown is "none"
\* or the name of the exception the method ended with.
Generator(inp, sp, ring, fft, spread, sig, hist) ==
    [inputPendingProcessing |-> inp, samplesProcessed |-> sp,
     ringBufferOfSamples |-> ring, fftOutputs |-> fft,
     spreadFftsOutput |-> spread, nextSignature |-> sig,
     written |-> hist, thrown |-> "none"]

NewGenerator ==
    Generator(<<>>, 0, RingBuffer(SampleRingSize, 0),
              RingBuffer(FrameRingSize, ZeroFrame),
              RingBuffer(FrameRingSize, ZeroFrame), NewSignature, <<>>)

Throw(g, e) == [g EXCEPT !.thrown = e]

\* the last n elements of s (all of s when it is shorter)
LastN(s, n) == IF Len(s) <= n THEN s ELSE SubSeq(s, Len(s) - n + 1, Len(s))

AllZero(s) == \A i \in 1..Len(s) : s[i] = 0

\* the time-ordered window doFft hands to the FFT
Excerpt(ring) ==
    JsSlice(ring.store, ring.position, Len(ring.store))
        \o JsSlice(ring.store, 0, ring.position)

\* a write that leaves the cursor where it was
WriteHopCursorKept(ring, samples) ==
    [ring EXCEPT
        !.store = JsSplice(ring.store, ring.position, Len(samples), samples),
        !.numWritten = @ + Len(samples)]

\* lines 334-337: the hop is spliced in at the write cursor
WriteHop(ring, samples) ==
    [ring EXCEPT
        !.store = JsSplice(ring.store, ring.position, Len(samples), samples),
        !.position = (ring.position + Len(samples)) % SampleRingSize,
        !.numWritten = @ + Len(samples)]

\* the power spectrum of a window, abstracted to its kind: an all-zero window
\* gives 0 in every bin, clamped to 1e-10
FftKind(excerpt) == IF AllZero(excerpt) THEN "floor" ELSE "signal"

\* lines 339-342 once the hop is in the ring: the spectrum of the window is
\* appended to the FFT ring
AppendSpectrum(g, ring, samples) ==
    [g EXCEPT !.ringBufferOfSamples = ring,
              !.fftOutputs = append(g.fftOutputs,
                                    [ref |-> g.fftOutputs.numWritten + 1,
                                     kind |-> FftKind(Excerpt(ring))]),
              !.written = LastN(g.written \o samples, SampleRingSize)]

doFft(g, samples) ==
    AppendSpectrum(g, WriteHop(g.ringBufferOfSamples, samples), samples)

KindRank(k) == CASE k = "zero" -> 0 [] k = "floor" -> 1 [] OTHER -> 2
KindMax(a, b) == IF KindRank(a) >= KindRank(b) THEN a ELSE b

\* spreadFftsOutput[pos][i] = max(spreadFftsOutput[pos][i], m) on the array
\* object in slot pos: every slot holding the same object sees the write
RaiseFrame(ring, pos, kind) ==
    [ring EXCEPT !.store =
        [k \in 1..Len(ring.store) |->
            IF ring.store[k].ref = ring.store[pos + 1].ref
            THEN [ring.store[k] EXCEPT !.kind = KindMax(@, kind)]
            ELSE ring.store[k]]]

SpreadOffsets == <<-1, -3, -6>>

\* the cursor offsets doPeakRecognition reads the spread ring at
DetectorOffsets == {-49, -53, -45, 165, 201, 214, 250}

\* the slot index the code computes for a cursor offset: JavaScript's %
SlotIndex(ring, offset) == JsRem(ring.position + offset, ring.bufferSize)

\* lines 361-364 for one bin: the three temporal offsets in order; the first
\* slot index that names no frame ends the pass with a TypeError
RECURSIVE SpreadInto(_, _, _)
SpreadAt(g, kind, n, pos) ==
    IF ~Defined(g.spreadFftsOutput, pos) THEN Throw(g, "TypeError")
    ELSE SpreadInto([g EXCEPT !.spreadFftsOutput = RaiseFrame(@, pos, kind)],
                    KindMax(kind, g.spreadFftsOutput.store[pos + 1].kind),
                    n + 1)

SpreadInto(g, kind, n) ==
    IF n > Len(SpreadOffsets) THEN g
    ELSE SpreadAt(g, kind, n, SlotIndex(g.spreadFftsOutput, SpreadOffsets[n]))

\* line 367, unless the pass has thrown
AppendSpread(g, kind) ==
    IF g.thrown # "none" THEN g
    ELSE [g EXCEPT !.spreadFftsOutput =
             append(@, [ref |-> g.spreadFftsOutput.numWritten + 1,
                        kind |-> kind])]

\* line 353 reads fftOutputs[position - 1]; lastFft.slice() throws when that
\* is undefined
SpreadLast(g, last) ==
    IF ~Defined(g.fftOutputs, last) THEN Throw(g, "TypeError")
    ELSE AppendSpread(SpreadInto(g, g.fftOutputs.store[last + 1].kind, 1),
                      g.fftOutputs.store[last + 1].kind)

doPeakSpreading(g) == SpreadLast(g, g.fftOutputs.position - 1)

\* Object.keys of the peak map: the generator's keys are the band ids 0..3,
\* array-index property names, which JavaScript enumerates in ascending order
BandKeyOrder == <<"0", "1", "2", "3">>
KeyRank(band) == CHOOSE i \in 1..Len(BandKeyOrder) : BandKeyOrder[i] = band

\* lines 409-411: the peak map with key band present
WithBand(peaks, band) ==
    IF \E k \in 1..Len(peaks) : peaks[k].band = band THEN peaks
    ELSE SelectSeq(peaks, LAMBDA e : KeyRank(e.band) < KeyRank(band))
           \o <<[band |-> band, peaks |-> <<>>]>>
           \o SelectSeq(peaks, LAMBDA e : KeyRank(e.band) > KeyRank(band))

\* cands: the bands of the candidates that pass every test of lines 377-407
\* in this pass, in increasing bin order (what the floating-point tests find
\* in a "signal" frame).  The first one reaches line 413, whose arguments
\* name peak_magnitude and corrected_peak_frequency_bin, bound nowhere.
doPeakRecognition(g, cands) ==
    IF ~Defined(g.fftOutputs, SlotIndex(g.fftOutputs, -RecognitionDelay))
    THEN Throw(g, "TypeError")
    ELSE IF \/ cands = <<>>
            \/ g.fftOutputs.store[
                 SlotIndex(g.fftOutputs, -RecognitionDelay) + 1].kind # "signal"
         THEN g
    ELSE IF \E off \in {-49, -53, -45} :
               ~Defined(g.spreadFftsOutput, SlotIndex(g.spreadFftsOutput, off))
         THEN Throw(g, "TypeError")
    ELSE Throw([g EXCEPT !.nextSignature.frequencyBandToSoundPeaks =
                    WithBand(@, cands[1])],
               "ReferenceError")

\* A corrected peak frequency bin (line 396: i * 64 + peakVariation2) is a
\* real number; it is carried here as a whole number of 1/BinScale bins
BinScale == 8

\* line 399: frequencyHz = bin * (16000 / 2 / 1024 / 64) = bin * 125 / 1024,
\* exact in floating point for these bins; in units of 1/HzUnit hertz
HzUnit == 1024 * BinScale
frequencyHz(bin) == bin * 125

\* lines 401-407: the band a frequency is bucketed into, NoBand when the
\* candidate is dropped (line 401 fails or line 407 continues)
NoBand == "none"
BandOf(f) ==
    IF f < 250 * HzUnit THEN NoBand
    ELSE IF f < 520 * HzUnit THEN "0"
    ELSE IF f < 1450 * HzUnit THEN "1"
    ELSE IF f < 3500 * HzUnit THEN "2"
    ELSE IF f <= 5500 * HzUnit THEN "3"
    ELSE NoBand

\* Math.floor of a corrected bin (line 413)
Floor(bin) == (bin \div BinScale) * BinScale

\* lines 399-413 for one candidate that passed the tests of lines 377-398:
\* the band's list is created, then the push names peak_magnitude and
\* corrected_peak_frequency_bin, bound nowhere
FileCandidate(g, bin) ==
    IF BandOf(frequencyHz(bin)) = NoBand THEN g
    ELSE Throw([g EXCEPT !.nextSignature.frequencyBandToSoundPeaks =
                    WithBand(@, BandOf(frequencyHz(bin)))],
               "ReferenceError")

RecognizeAfterSpread(g, cands) ==
    IF g.thrown # "none" THEN g
    ELSE IF g.spreadFftsOutput.numWritten >= RecognitionDelay
         THEN doPeakRecognition(g, cands)
         ELSE g

doPeakSpreadingAndRecognition(g, cands) ==
    RecognizeAfterSpread(doPeakSpreading(g), cands)

\* the for loop of processInput: one doFft and one spread/recognition pass
\* per 128 samples, ended by the first exception
RECURSIVE ProcessFrom(_, _, _, _)
ProcessNext(g, samples, i, cands) ==
    IF g.thrown # "none" THEN g ELSE ProcessFrom(g, samples, i, cands)

ProcessFrom(g, samples, i, cands) ==
    IF i >= Len(samples) THEN g
    ELSE ProcessNext(
           doPeakSpreadingAndRecognition(
             doFft(g, JsSlice(samples, i, i + HopSize)), cands),
           samples, i + HopSize, cands)

processInput(g, samples, cands) ==
    ProcessFrom([g EXCEPT !.nextSignature.numberSamples = @ + Len(samples)],
                samples, 0, cands)

RECURSIVE SumLens(_)
SumLens(peaks) ==
    IF peaks = <<>> THEN 0 ELSE Len(Head(peaks).peaks) + SumLens(Tail(peaks))

TotalPeaks(sig) == SumLens(sig.frequencyBandToSoundPeaks)

Pending(g) == Len(g.inputPendingProcessing) - g.samplesProcessed

\* the loop condition of lines 304-306
KeepGoing(g) ==
    /\ Pending(g) >= HopSize
    /\ \/ g.nextSignature.numberSamples < MaxTimeSamples
       \/ TotalPeaks(g.nextSignature) < MAX_PEAKS

\* the while loop of getNextSignature; samplesProcessed advances only after
\* processInput has returned
RECURSIVE ConsumeHops(_, _)
ConsumeNext(g, cands) ==
    IF g.thrown # "none" THEN g
    ELSE ConsumeHops([g EXCEPT !.samplesProcessed = @ + HopSize], cands)

ConsumeHops(g, cands) ==
    IF ~KeepGoing(g) THEN g
    ELSE ConsumeNext(
           processInput(g, JsSlice(g.inputPendingProcessing,
                                   g.samplesProcessed,
                                   g.samplesProcessed + HopSize), cands),
           cands)

NoSignature == [sampleRateHz |-> 0, numberSamples |-> 0,
                frequencyBandToSoundPeaks |-> <<>>]

\* lines 311-321: the signature is handed out and the generator starts a new
\* one with new rings; nothing of this happens when the loop has thrown
Emit(g) ==
    IF g.thrown # "none"
    THEN [gen |-> g, result |-> g.thrown, signature |-> NoSignature]
    ELSE [gen |-> [g EXCEPT
                     !.nextSignature = NewSignature,
                     !.ringBufferOfSamples = RingBuffer(SampleRingSize, 0),
                     !.fftOutputs = RingBuffer(FrameRingSize, ZeroFrame),
                     !.spreadFftsOutput = RingBuffer(FrameRingSize, ZeroFrame),
                     !.written = <<>>],
          result |-> "signature", signature |-> g.nextSignature]

\* getNextSignature: the generator afterwards, and what the call gave back
getNextSignature(g, cands) ==
    IF Pending(g) < HopSize
    THEN [gen |-> g, result |-> "null", signature |-> NoSignature]
    ELSE Emit(ConsumeHops(g, cands))

feedInput(g, samples) ==
    [g EXCEPT !.inputPendingProcessing = @ \o samples]

----------------------------------------------------------------------------
(* DecodedMessage: the binary container *)

\* Bytes are 0..255; a 32-bit word is its four bytes, least significant first.
LE16(n) == <<n % 256, (n \div 256) % 256>>
LE32(n) == <<n % 256, (n \div 256) % 256, (n \div 65536) % 256,
             (n \div 16777216) % 256>>
ZeroBytes(n) == [i \in 1..n |-> 0]

\* buf.slice(k, k + 4) / the value readUInt16LE and readUInt32LE give
Word(buf, k) == SubSeq(buf, k + 1, k + 4)
U16(buf, k) == buf[k + 1] + 256 * buf[k + 2]
U32(buf, k) ==
    buf[k + 1] + 256 * buf[k + 2] + 65536 * buf[k + 3] + 16777216 * buf[k + 4]

Magic1 == <<128, 37, 254, 202>>     \* 0xcafe2580
Magic2 == <<0, 156, 17, 148>>       \* 0x94119c00
HeaderSize == 48

\* the SampleRate enum: key _<hz> of id i
SampleRateHz == <<8000, 11025, 16000, 32000, 44100, 48000>>

\* sampleRateHz * 0.24: 1920, 2646, 3840, 7680, 10584 and 11520 for the six
\* rates, each exact in double arithmetic
Bias(rate) == (rate * 24) \div 100

\* x << 27 of JavaScript, a signed 32-bit value: only the low 5 bits of x
\* survive, and bit 4 of x becomes the sign
Shl27(x) ==
    IF x % 32 >= 16 THEN ((x % 32) - 32) * 134217728 ELSE (x % 32) * 134217728

\* FrequencyBand[key]: the enum has the five names as keys and nothing else
FrequencyBandNames == <<"_0_250", "_250_520", "_520_1450", "_1450_3500",
                        "_3500_5500">>
IsBandName(key) == \E i \in 1..5 : FrequencyBandNames[i] = key
BandIdOf(key) == (CHOOSE i \in 1..5 : FrequencyBandNames[i] = key) - 2

\* Buffer.from([(0x60030040 + FrequencyBand[band]) >> 0]): one byte, the low
\* byte of the tag for an enum name, and 0 (NaN >> 0) for any other key
TagBytes(key) == IF IsBandName(key) THEN <<64 + BandIdOf(key)>> ELSE <<0>>

\* lines 139-143: peak.peak_magnitude and peak.corrected_peak_frequency_bin
\* are undefined (the fields are peakMagnitude and correctedPeakFrequencyBin),
\* and writeUInt16LE writes NaN as 0; writeUInt8 rejects a value over 255
PeakBytes(peak) == <<peak.fftPassNumber % 256, 0, 0, 0, 0>>

RECURSIVE ConcatAll(_)
ConcatAll(ss) == IF ss = <<>> THEN <<>> ELSE Head(ss) \o ConcatAll(Tail(ss))

PeaksBuf(peaks) == ConcatAll([k \in 1..Len(peaks) |-> PeakBytes(peaks[k])])

\* the exception one band record ends with, "none" when it is built
BandThrown(entry) ==
    IF \E k \in 1..Len(entry.peaks) : entry.peaks[k].fftPassNumber > 255
    THEN "RangeError"
    ELSE IF JsRem(-(5 * Len(entry.peaks)), 4) < 0
         THEN "RangeError"      \* Buffer.alloc of a negative size
         ELSE "none"

\* line 145: tag, length, payload and padding of one band
BandRecord(entry) ==
    TagBytes(entry.band) \o <<(5 * Len(entry.peaks)) % 256>>
        \o PeaksBuf(entry.peaks)
        \o ZeroBytes(JsRem(-(5 * Len(entry.peaks)), 4))

Contents(sig) ==
    ConcatAll([k \in 1..Len(sig.frequencyBandToSoundPeaks) |->
                  BandRecord(sig.frequencyBandToSoundPeaks[k])])

\* lines 129-134 and 148-149: the header as it is when it is copied into buf;
\* the checksum field is written at line 153, into header only
Header(sig, contentsLen) ==
    Magic1 \o ZeroBytes(4) \o LE32(contentsLen + 8) \o Magic2
        \o ZeroBytes(12) \o LE32(Shl27(sig.sampleRateHz)) \o ZeroBytes(12)
        \o LE32(sig.numberSamples + Bias(sig.sampleRateHz))

NotRun == [thrown |-> "notrun", bytes |-> <<>>]
Raised(e) == [thrown |-> e, bytes |-> <<>>]

\* avail: whether createHash('crc32') finds a digest of that name in the
\* crypto library of the runtime; it throws when it does not
encodeToBinary(sig, avail) ==
    IF Shl27(sig.sampleRateHz) < 0 THEN Raised("RangeError")
    ELSE IF \E k \in 1..Len(sig.frequencyBandToSoundPeaks) :
               BandThrown(sig.frequencyBandToSoundPeaks[k]) # "none"
         THEN Raised("RangeError")
    ELSE IF ~avail THEN Raised("DigestError")
    ELSE [thrown |-> "none",
          bytes |-> Header(sig, Len(Contents(sig))) \o Contents(sig)]

----------------------------------------------------------------------------
(* CRC-32 (IEEE 802.3, reflected), a 32-bit value as <<high, low>> halves *)

RECURSIVE XorN(_, _)
XorN(a, b) ==
    IF a = 0 THEN b
    ELSE IF b = 0 THEN a
    ELSE ((a + b) % 2) + 2 * XorN(a \div 2, b \div 2)

CrcStep(c) ==
    IF c[2] % 2 = 1
    THEN <<XorN(c[1] \div 2, 60856),
           XorN(c[2] \div 2 + (c[1] % 2) * 32768, 33568)>>
    ELSE <<c[1] \div 2, c[2] \div 2 + (c[1] % 2) * 32768>>

RECURSIVE CrcSteps(_, _)
CrcSteps(c, n) == IF n = 0 THEN c ELSE CrcSteps(CrcStep(c), n - 1)

CrcTable == [n \in 0..255 |-> CrcSteps(<<0, n>>, 8)]

CrcByte(c, b, t) ==
    <<XorN(c[1] \div 256, t[1]),
      XorN(c[2] \div 256 + (c[1] % 256) * 256, t[2])>>

\* the bytes buf[lo..hi] folded into c; the range is halved, and the first
\* half is computed before the second is entered, to keep the evaluation
\* shallow
RECURSIVE CrcFold(_, _, _, _)
CrcThen(c, buf, lo, hi) ==
    IF c[1] >= 0 THEN CrcFold(c, buf, lo, hi) ELSE c

CrcFold(c, buf, lo, hi) ==
    IF lo > hi THEN c
    ELSE IF lo = hi
         THEN CrcByte(c, buf[lo], CrcTable[XorN(c[2] % 256, buf[lo])])
    ELSE CrcThen(CrcFold(c, buf, lo, (lo + hi) \div 2),
                 buf, ((lo + hi) \div 2) + 1, hi)

CrcFinal(c) == <<XorN(c[1], 65535), XorN(c[2], 65535)>>

Crc32(buf) == CrcFinal(CrcFold(<<65535, 65535>>, buf, 1, Len(buf)))

\* digest('hex') of a 4-byte digest: eight hexadecimal digits
Hex4(h) == <<h \div 4096, (h \div 256) % 16, (h \div 16) % 16, h % 16>>
HexDigest(c) == Hex4(c[1]) \o Hex4(c[2])

\* Number.prototype.toString(16): no leading zeros, "0" for zero
RECURSIVE StripZeros(_)
StripZeros(d) ==
    IF Len(d) > 1 /\ Head(d) = 0 THEN StripZeros(Tail(d)) ELSE d

ToString16(w) ==
    StripZeros(Hex4(w[4] * 256 + w[3]) \o Hex4(w[2] * 256 + w[1]))

----------------------------------------------------------------------------
(* decodeFromBinary *)

NoResult == [thrown |-> "notrun", sig |-> NoSignature]
Failed(e) == [thrown |-> e, sig |-> NoSignature]
NoTamper == [pos |-> 0, val |-> 0, result |-> NoResult]
NoParse == [defect |-> "notrun", data |-> <<>>, result |-> NoResult]

\* line 87: the loop runs frequencyPeaksSize times
PeakCount(size) == size

\* lines 88-90: pass i of the loop (from 0) reads the 5 bytes at offset + i
PeakOffset(offset, i) == offset + i

\* lines 87-92: the peaks of one record, offset being that of its payload
ReadPeaks(buf, offset, size, rate) ==
    [i \in 1..PeakCount(size) |->
        [fftPassNumber |-> buf[PeakOffset(offset, i - 1) + 1],
         peakMagnitude |-> U16(buf, PeakOffset(offset, i - 1) + 1),
         correctedPeakFrequencyBin |-> U16(buf, PeakOffset(offset, i - 1) + 3),
         sampleRateHz |-> rate]]

\* lines 84 and 95: offset += 8, then offset += size + (-size % 4)
NextOffset(offset, size) == offset + 8 + size + JsRem(-size, 4)

\* line 94: FrequencyBand[frequencyBandId - 0x60030040] looks a number up
\* among the enum's names and is undefined for every tag, so every record
\* is stored under the one key "undefined"
RECURSIVE ParseBands(_, _, _)
ParseBands(buf, offset, sig) ==
    IF offset >= Len(buf) THEN [thrown |-> "none", sig |-> sig]
    ELSE IF offset + 8 > Len(buf) THEN Failed("RangeError")
    ELSE IF buf[offset + 8] >= 128 THEN Failed("RangeError")
    ELSE IF /\ PeakCount(U32(buf, offset + 4)) >= 1
            /\ PeakOffset(offset + 8, PeakCount(U32(buf, offset + 4)) - 1) + 5
                  > Len(buf)
         THEN Failed("RangeError")
    ELSE ParseBands(buf, NextOffset(offset, U32(buf, offset + 4)),
           [sig EXCEPT !.frequencyBandToSoundPeaks =
               <<[band |-> "undefined",
                  peaks |-> ReadPeaks(buf, offset + 8, U32(buf, offset + 4),
                                      sig.sampleRateHz)]>>])

\* shiftedSampleRateId >> 27, a signed shift of the word read at offset 28
RateId(buf) ==
    IF buf[32] \div 8 >= 16 THEN (buf[32] \div 8) - 32 ELSE buf[32] \div 8

\* lines 76-78 and the loop after them
DecodeBody(buf, id) ==
    IF id \notin 1..Len(SampleRateHz) THEN Failed("TypeError")
    ELSE ParseBands(buf, HeaderSize,
           [sampleRateHz |-> SampleRateHz[id],
            numberSamples |-> U32(buf, 44) - Bias(SampleRateHz[id]),
            frequencyBandToSoundPeaks |-> <<>>])

\* lines 62-74: the reads of the header, then the checks of line 72 in the
\* order || evaluates them
decodeFromBinary(data, avail) ==
    IF Len(data) < 32 THEN Failed("RangeError")
    ELSE IF Word(data, 0) # Magic1 THEN Failed("InvalidHeader")
    ELSE IF Len(data) < HeaderSize \/ Word(data, 8) # LE32(Len(data) - HeaderSize)
         THEN Failed("InvalidHeader")
    ELSE IF ~avail THEN Failed("DigestError")
    ELSE IF HexDigest(Crc32(SubSeq(data, 9, Len(data)))) # ToString16(Word(data, 4))
         THEN Failed("InvalidHeader")
    ELSE IF Word(data, 12) # Magic2 THEN Failed("InvalidHeader")
    ELSE DecodeBody(data, RateId(data))

----------------------------------------------------------------------------
(* The generator driven through feedInput / getNextSignature *)

Current == Generator(inputPendingProcessing, samplesProcessed,
                     ringBufferOfSamples, fftOutputs, spreadFftsOutput,
                     nextSignature, written)

Install(g) ==
    /\ inputPendingProcessing' = g.inputPendingProcessing
    /\ samplesProcessed' = g.samplesProcessed
    /\ ringBufferOfSamples' = g.ringBufferOfSamples
    /\ fftOutputs' = g.fftOutputs
    /\ spreadFftsOutput' = g.spreadFftsOutput
    /\ nextSignature' = g.nextSignature
    /\ written' = g.written

Zeros(n) == [i \in 1..n |-> 0]
Ramp(n) == [i \in 1..n |-> i]

\* the sample blocks a caller feeds
FeedBlocks == {Zeros(64), Zeros(HopSize), Ramp(HopSize), Zeros(1024)}

\* what the detector's floating-point tests may find in one pass
CandidateChoices == {<<>>, <<"1">>, <<"0", "2">>}

NoCall == [op |-> "new", result |-> "void", pending |-> 0,
           signature |-> NoSignature]

\* a generator as `new SignatureGenerator()` leaves it, with the calls made
\* on it and what each gave back
NewInstance == [gen |-> NewGenerator, calls |-> <<>>, results |-> <<>>]
NewPair == <<NewInstance, NewInstance>>

\* no pair of generators was built
NoPair == <<>>

\* the detector reached no candidate
NoCandidate == <<>>

InitGenerator ==
    /\ inputPendingProcessing = NewGenerator.inputPendingProcessing
    /\ samplesProcessed = NewGenerator.samplesProcessed
    /\ ringBufferOfSamples = NewGenerator.ringBufferOfSamples
    /\ fftOutputs = NewGenerator.fftOutputs
    /\ spreadFftsOutput = NewGenerator.spreadFftsOutput
    /\ nextSignature = NewGenerator.nextSignature
    /\ written = NewGenerator.written
    /\ feeds = 0
    /\ lastCall = NoCall
    /\ taken = <<>>
    /\ pair = NoPair
    /\ candidate = NoCandidate

\* the codec is not used
CodecIdle ==
    /\ crc32Available = FALSE
    /\ codecSig = NoSignature
    /\ encoded = NotRun
    /\ decoded = NoResult
    /\ tampered = NoTamper
    /\ parsed = NoParse

FeedInput ==
    /\ feeds < MaxFeeds
    /\ \E samples \in FeedBlocks :
          /\ Install(feedInput(Current, samples))
          /\ lastCall' = [op |-> "feedInput", result |-> "void",
                          pending |-> Pending(Current),
                          signature |-> NoSignature]
    /\ feeds' = feeds + 1
    /\ UNCHANGED <<taken, pair, candidate, codecVars>>

Return(r, pendingBefore) ==
    /\ Install(r.gen)
    /\ lastCall' = [op |-> "getNextSignature", result |-> r.result,
                    pending |-> pendingBefore, signature |-> r.signature]
    /\ taken' = IF r.result = "signature"
                THEN Append(taken, r.signature.numberSamples)
                ELSE taken

GetNextSignature ==
    /\ nextSignature.numberSamples < MaxCalls * HopSize
    /\ \E cands \in CandidateChoices :
          Return(getNextSignature(Current, cands), Pending(Current))
    /\ UNCHANGED <<feeds, pair, candidate, codecVars>>

Init == InitGenerator /\ CodecIdle

Next == FeedInput \/ GetNextSignature

Spec == Init /\ [][Next]_vars

----------------------------------------------------------------------------
(* The sample ring driven by doFft alone: a caller hands doFft the          *)
(* successive 128-sample hops of a buffer                                   *)

\* sample n (from 1) of stream p
StreamSample(p, n) == ((n * p) % 32768) - 16384 * (p % 2)

RingStreams ==
    {[n \in 1..(MaxRingHops * HopSize) |-> StreamSample(p, n)] : p \in 1..6}

InitRing ==
    /\ inputPendingProcessing \in RingStreams
    /\ samplesProcessed = NewGenerator.samplesProcessed
    /\ ringBufferOfSamples = NewGenerator.ringBufferOfSamples
    /\ fftOutputs = NewGenerator.fftOutputs
    /\ spreadFftsOutput = NewGenerator.spreadFftsOutput
    /\ nextSignature = NewGenerator.nextSignature
    /\ written = NewGenerator.written
    /\ feeds = 1
    /\ lastCall = NoCall
    /\ taken = <<>>
    /\ pair = NoPair
    /\ candidate = NoCandidate
    /\ CodecIdle

DoFft ==
    /\ ringBufferOfSamples.numWritten + HopSize <= Len(inputPendingProcessing)
    /\ Install(doFft(Current,
                     JsSlice(inputPendingProcessing,
                             ringBufferOfSamples.numWritten,
                             ringBufferOfSamples.numWritten + HopSize)))
    /\ lastCall' = [op |-> "doFft", result |-> "void",
                    pending |-> Pending(Current), signature |-> NoSignature]
    /\ UNCHANGED <<feeds, taken, pair, candidate, codecVars>>

NextRing == DoFft

SpecRing == InitRing /\ [][NextRing]_vars

----------------------------------------------------------------------------
(* processInput called directly with the successive 128-sample hops of a    *)
(* buffer; the caller goes on after an exception                            *)

Processed(g) ==
    /\ Install(g)
    /\ lastCall' = [op |-> "processInput",
                    result |-> IF g.thrown = "none" THEN "void" ELSE g.thrown,
                    pending |-> Pending(Current), signature |-> NoSignature]

ProcessInput ==
    /\ ringBufferOfSamples.numWritten + HopSize <= Len(inputPendingProcessing)
    /\ \E cands \in CandidateChoices :
          Processed(processInput(Current,
                                 JsSlice(inputPendingProcessing,
                                         ringBufferOfSamples.numWritten,
                                         ringBufferOfSamples.numWritten + HopSize),
                                 cands))
    /\ UNCHANGED <<feeds, taken, pair, candidate, codecVars>>

NextPass == ProcessInput

SpecPass == InitRing /\ [][NextPass]_vars

----------------------------------------------------------------------------
(* Two generators, each called through feedInput / getNextSignature, the    *)
(* calls on the two interleaved in any order                                *)

\* the fields of the first generator whichever generator is called
ThisOfFirst(p, i) == p[1].gen

\* `this` inside a method called on generator i of the pair: the fields the
\* constructor set on that object
This(p, i) == p[i].gen

PairBlocks == {Zeros(HopSize), Ramp(HopSize)}
PairCandidates == {<<"1">>}

Called(inst, call, g, result) ==
    [gen |-> [g EXCEPT !.thrown = "none"],
     calls |-> Append(inst.calls, call),
     results |-> Append(inst.results, result)]

Took(inst, call, r) ==
    Called(inst, call, r.gen, [result |-> r.result, signature |-> r.signature])

PairFeedInput ==
    /\ \E i \in 1..2, samples \in PairBlocks :
          /\ Len(pair[i].calls) < MaxPairCalls
          /\ pair' = [pair EXCEPT ![i] =
                 Called(@, [op |-> "feedInput", samples |-> samples],
                        feedInput(This(pair, i), samples),
                        [result |-> "void", signature |-> NoSignature])]
    /\ UNCHANGED <<genVars, feeds, lastCall, written, taken, candidate,
                   codecVars>>

PairGetNextSignature ==
    /\ \E i \in 1..2, cands \in PairCandidates :
          /\ Len(pair[i].calls) < MaxPairCalls
          /\ pair' = [pair EXCEPT ![i] =
                 Took(@, [op |-> "getNextSignature", cands |-> cands],
                      getNextSignature(This(pair, i), cands))]
    /\ UNCHANGED <<genVars, feeds, lastCall, written, taken, candidate,
                   codecVars>>

InitPair ==
    /\ inputPendingProcessing = NewGenerator.inputPendingProcessing
    /\ samplesProcessed = NewGenerator.samplesProcessed
    /\ ringBufferOfSamples = NewGenerator.ringBufferOfSamples
    /\ fftOutputs = NewGenerator.fftOutputs
    /\ spreadFftsOutput = NewGenerator.spreadFftsOutput
    /\ nextSignature = NewGenerator.nextSignature
    /\ written = NewGenerator.written
    /\ feeds = 0
    /\ lastCall = NoCall
    /\ taken = <<>>
    /\ pair = NewPair
    /\ candidate = NoCandidate
    /\ CodecIdle

NextPair == PairFeedInput \/ PairGetNextSignature

SpecPair == InitPair /\ [][NextPair]_vars

----------------------------------------------------------------------------
(* The band bucketing of doPeakRecognition applied to candidate peaks      *)

\* whole bins next to the band edges: 250 Hz = bin 2048, 520 Hz = 4259.84,
\* 1450 Hz = 11878.4, 3500 Hz = 28672, 5500 Hz = 45056
EdgeBins == {2048, 4259, 11878, 28672, 45056}

\* the corrected bins of the candidates: every 1/BinScale step from one bin
\* below to two bins above each edge
CandidateBins ==
    UNION {((b - 1) * BinScale)..((b + 2) * BinScale) : b \in EdgeBins}

\* the filing of one candidate on the generator's nextSignature
FilePeak ==
    /\ \E bin \in CandidateBins :
          /\ Install(FileCandidate(Current, bin))
          /\ candidate' = [bin |-> bin,
                           band |-> BandOf(frequencyHz(bin)),
                           thrown |-> FileCandidate(Current, bin).thrown]
    /\ UNCHANGED <<feeds, lastCall, taken, pair, codecVars>>

NextBand == FilePeak

SpecBand == Init /\ [][NextBand]_vars

----------------------------------------------------------------------------
(* The codec applied to Signatures and to containers *)

Peak(pass, mag, bin, rate) ==
    [fftPassNumber |-> pass, peakMagnitude |-> mag,
     correctedPeakFrequencyBin |-> bin, sampleRateHz |-> rate]

FourPeaks(rate) ==
    <<Peak(0, 6000, 640, rate), Peak(7, 6000, 40000, rate),
      Peak(7, 65535, 641, rate), Peak(255, 1, 64959, rate)>>

\* peak maps of Signatures: keyed by band id as the generator keys them, and
\* one keyed by the enum's name
PeakMaps(rate) ==
    { <<>>,
      <<[band |-> "1", peaks |-> <<>>]>>,
      <<[band |-> "1", peaks |-> <<Peak(3, 6000, 9000, rate)>>]>>,
      <<[band |-> "0", peaks |-> FourPeaks(rate)]>>,
      <<[band |-> "0", peaks |-> FourPeaks(rate)],
        [band |-> "2", peaks |-> <<>>]>>,
      <<[band |-> "_520_1450", peaks |-> FourPeaks(rate)]>> }

CodecSignatures ==
    {[sampleRateHz |-> SampleRateHz[r], numberSamples |-> n,
      frequencyBandToSoundPeaks |-> m] :
        r \in 1..Len(SampleRateHz), n \in {0, 49664},
        m \in PeakMaps(SampleRate16000)}

\* A container laid out as the format has it: 4-byte tag 0x60030040 + band
\* id, 4-byte payload length, 5 bytes a peak, zero padding to a multiple of
\* 4, the checksum of bytes[8:] at offset 4.  defect spoils one field before
\* the checksum is computed.
Defects == {"none", "rateId0", "rateId7", "rateId17", "badTag", "truncated"}

LayoutBandId(key) ==
    IF IsBandName(key) THEN BandIdOf(key) ELSE KeyRank(key) - 1

LayoutPeaks(peaks) ==
    ConcatAll([k \in 1..Len(peaks) |->
        <<peaks[k].fftPassNumber>> \o LE16(peaks[k].peakMagnitude)
            \o LE16(peaks[k].correctedPeakFrequencyBin)])

LayoutRecord(entry, first, defect) ==
    (IF first /\ defect = "badTag" THEN <<80, 0, 3, 96>>
     ELSE <<64 + LayoutBandId(entry.band), 0, 3, 96>>)
    \o LE32(5 * Len(entry.peaks)
            + (IF first /\ defect = "truncated" THEN 40 ELSE 0))
    \o LayoutPeaks(entry.peaks)
    \o ZeroBytes((4 - ((5 * Len(entry.peaks)) % 4)) % 4)

LayoutRateId(sig, defect) ==
    CASE defect = "rateId0" -> 0
      [] defect = "rateId7" -> 7
      [] defect = "rateId17" -> 17
      [] OTHER -> CHOOSE i \in 1..Len(SampleRateHz) :
                      SampleRateHz[i] = sig.sampleRateHz

LayoutTail(sig, defect, body) ==
    LE32(Len(body)) \o Magic2 \o ZeroBytes(12)
        \o <<0, 0, 0, 8 * LayoutRateId(sig, defect)>> \o ZeroBytes(12)
        \o LE32(sig.numberSamples + Bias(sig.sampleRateHz)) \o body

CrcBytes(c) == <<c[2] % 256, c[2] \div 256, c[1] % 256, c[1] \div 256>>

Sealed(tail) == Magic1 \o CrcBytes(Crc32(tail)) \o tail

LayoutContainer(sig, defect) ==
    Sealed(LayoutTail(sig, defect,
        ConcatAll([k \in 1..Len(sig.frequencyBandToSoundPeaks) |->
            LayoutRecord(sig.frequencyBandToSoundPeaks[k], k = 1, defect)])))

InitCodec ==
    /\ InitGenerator
    /\ crc32Available \in BOOLEAN
    /\ codecSig \in CodecSignatures
    /\ encoded = NotRun
    /\ decoded = NoResult
    /\ tampered = NoTamper
    /\ parsed = NoParse

EncodeToBinary ==
    /\ encoded = NotRun
    /\ encoded' = encodeToBinary(codecSig, crc32Available)
    /\ UNCHANGED <<genVars, driverVars, crc32Available, codecSig, decoded,
                   tampered, parsed>>

DecodeEncoded ==
    /\ encoded.thrown = "none"
    /\ decoded = NoResult
    /\ decoded' = decodeFromBinary(encoded.bytes, crc32Available)
    /\ UNCHANGED <<genVars, driverVars, crc32Available, codecSig, encoded,
                   tampered, parsed>>

\* decodeFromBinary on the encoded bytes with the byte at 0-based position
\* pos >= 8 changed
DecodeTampered ==
    /\ encoded.thrown = "none"
    /\ tampered = NoTamper
    /\ \E pos \in {8, 28, 44, Len(encoded.bytes) - 1}, d \in {1, 128} :
          tampered' =
             [pos |-> pos, val |-> (encoded.bytes[pos + 1] + d) % 256,
              result |-> decodeFromBinary(
                  [encoded.bytes EXCEPT ![pos + 1] = (@ + d) % 256],
                  crc32Available)]
    /\ UNCHANGED <<genVars, driverVars, crc32Available, codecSig, encoded,
                   decoded, parsed>>

Parse(defect, data) ==
    parsed' = [defect |-> defect, data |-> data,
               result |-> decodeFromBinary(data, crc32Available)]

DecodeContainer ==
    /\ parsed = NoParse
    /\ \E defect \in Defects :
          /\ defect \in {"badTag", "truncated"} =>
                codecSig.frequencyBandToSoundPeaks # <<>>
          /\ Parse(defect, LayoutContainer(codecSig, defect))
    /\ UNCHANGED <<genVars, driverVars, crc32Available, codecSig, encoded,
                   decoded, tampered>>

NextCodec ==
    EncodeToBinary \/ DecodeEncoded \/ DecodeTampered \/ DecodeContainer

SpecCodec == InitCodec /\ [][NextCodec]_vars

----------------------------------------------------------------------------
(* Claims about the generator *)

RECURSIVE SumSeq(_)
SumSeq(s) == IF s = <<>> THEN 0 ELSE Head(s) + SumSeq(Tail(s))

LimitReached(sig) ==
    sig.numberSamples >= MaxTimeSamples \/ TotalPeaks(sig) >= MAX_PEAKS

\* C2: every Signature getNextSignature returns has at most 255 peaks and at
\* most 3.1 s of samples plus one hop, and once the chunk in progress has
\* reached the duration limit or the peak limit no call consumes a further
\* hop into it.
C2_StopsAtEitherLimit ==
    [][/\ lastCall'.result = "signature" =>
             /\ TotalPeaks(lastCall'.signature) <= MAX_PEAKS
             /\ lastCall'.signature.numberSamples <= MaxTimeSamples + HopSize
       /\ LimitReached(nextSignature) =>
             nextSignature'.numberSamples <= nextSignature.numberSamples]_vars

\* C3: a getNextSignature call with fewer than 128 unprocessed samples
\* returns null and changes nothing of the generator; a call with at least
\* 128 returns a Signature.
C3_NullOrSignature ==
    [][lastCall'.op = "getNextSignature" =>
          /\ Pending(Current) < HopSize =>
                lastCall'.result = "null" /\ UNCHANGED genVars
          /\ Pending(Current) >= HopSize =>
                lastCall'.result = "signature"]_vars

\* C4: the numberSamples of the returned Signatures are multiples of 128,
\* every sample counted into a chunk is a sample consumed, and once a call
\* has returned null they sum to 128 * floor(N / 128) for the N samples fed;
\* a drain ends with null, not with an exception.
C4_ConsumedSamplesCounted ==
    /\ \A k \in 1..Len(taken) : taken[k] % HopSize = 0
    /\ SumSeq(taken) + nextSignature.numberSamples = samplesProcessed
    /\ lastCall.op = "getNextSignature" =>
          /\ lastCall.result \in {"null", "signature"}
          /\ lastCall.result = "null" =>
                SumSeq(taken)
                    = HopSize * (Len(inputPendingProcessing) \div HopSize)

\* C10: the sample ring keeps 2048 elements and its time-ordered window is
\* the most recent 2048 samples written, oldest first, after 2048 - N zeros
\* when only N < 2048 samples have been written.
RecentWindow(stream, n) ==
    Zeros(Max(0, SampleRingSize - n))
        \o JsSlice(stream, Max(0, n - SampleRingSize), n)

C10_WindowIsRecentSamples ==
    /\ Len(ringBufferOfSamples.store) = SampleRingSize
    /\ Excerpt(ringBufferOfSamples)
          = RecentWindow(inputPendingProcessing, ringBufferOfSamples.numWritten)

\* C10 witness: the cursor has wrapped and the window holds written samples
C10_Witness ==
    /\ ringBufferOfSamples.numWritten >= SampleRingSize + 2 * HopSize
    /\ ringBufferOfSamples.position = 2 * HopSize
    /\ Excerpt(ringBufferOfSamples)[1] # 0

----------------------------------------------------------------------------
(* Claims about the codec *)

PeakTriples(peaks) ==
    [k \in 1..Len(peaks) |->
        <<peaks[k].fftPassNumber, peaks[k].peakMagnitude,
          peaks[k].correctedPeakFrequencyBin>>]

BandTriples(sig) ==
    [k \in 1..Len(sig.frequencyBandToSoundPeaks) |->
        PeakTriples(sig.frequencyBandToSoundPeaks[k].peaks)]

\* C1: encodeToBinary returns a container for the Signature, and
\* decodeFromBinary of that container returns a Signature with the same
\* sampleRateHz, the same numberSamples and, band by band, the same ordered
\* list of (fftPassNumber, peakMagnitude, correctedPeakFrequencyBin).
C1_RoundTrip ==
    /\ encoded # NotRun => encoded.thrown = "none"
    /\ decoded # NoResult =>
          /\ decoded.thrown = "none"
          /\ decoded.sig.sampleRateHz = codecSig.sampleRateHz
          /\ decoded.sig.numberSamples = codecSig.numberSamples
          /\ BandTriples(decoded.sig) = BandTriples(codecSig)

\* C5: the 32-bit field at offset 8 of the container encodeToBinary returns
\* is the length of the container minus 48.
C5_SizeField ==
    encoded.thrown = "none" =>
        Word(encoded.bytes, 8) = LE32(Len(encoded.bytes) - HeaderSize)

\* C6: once encodeToBinary has run, every band with n peaks has a record of a
\* 4-byte tag, a 4-byte length holding 5 * n, 5 * n bytes of payload and
\* padding, and the record is a multiple of 4 bytes long.
C6_BandRecordAligned ==
    encoded # NotRun =>
        \A k \in 1..Len(codecSig.frequencyBandToSoundPeaks) :
            /\ BandThrown(codecSig.frequencyBandToSoundPeaks[k]) = "none"
            /\ Len(BandRecord(codecSig.frequencyBandToSoundPeaks[k]))
                  >= 8 + 5 * Len(codecSig.frequencyBandToSoundPeaks[k].peaks)
            /\ Len(BandRecord(codecSig.frequencyBandToSoundPeaks[k])) % 4 = 0

\* C7: the container encodeToBinary returns stores at offset 4 the CRC-32 of
\* bytes[8:] and decodes to a Signature, and with one byte at a position
\* >= 8 changed decodeFromBinary throws.
C7_ChecksumGuards ==
    /\ encoded.thrown = "none" =>
          Word(encoded.bytes, 4)
              = CrcBytes(Crc32(SubSeq(encoded.bytes, 9, Len(encoded.bytes))))
    /\ decoded # NoResult => decoded.thrown = "none"
    /\ tampered # NoTamper => tampered.result.thrown # "none"

\* C8: decodeFromBinary throws for a container with valid magics, size and
\* checksum whose sample-rate id is outside 1..6, whose first band tag is not
\* 0x60030040 + a band id, or whose first band declares a payload running
\* past the end of the buffer.
C8_MalformedRejected ==
    parsed.defect \in Defects \ {"none"} => parsed.result.thrown # "none"

----------------------------------------------------------------------------
(* Claims about generator instances *)

C13_ShortInputGivesNull ==
    (/\ lastCall.op = "getNextSignature"
     /\ inputPendingProcessing = Zeros(1024)
     /\ lastCall.pending = 1024
     /\ taken = <<>>)
    => lastCall.result = "null"

----------------------------------------------------------------------------
(* Claims about the spread pass *)

\* C15: in every pass over a hop, the slot index of the latest FFT frame
\* (cursor - 1), the spread-ring indices of the spread stage (cursor + -1, -3,
\* -6) and, once 46 frames are written, the indices of the detector each name
\* a slot of the ring, and the pass ends without a TypeError.
C15_SlotIndicesInRange ==
    [][lastCall'.op = "processInput" =>
          /\ Defined(fftOutputs', fftOutputs'.position - 1)
          /\ \A n \in 1..Len(SpreadOffsets) :
                Defined(spreadFftsOutput,
                        SlotIndex(spreadFftsOutput, SpreadOffsets[n]))
          /\ spreadFftsOutput'.numWritten >= RecognitionDelay =>
                /\ Defined(fftOutputs',
                           SlotIndex(fftOutputs', -RecognitionDelay))
                /\ \A off \in DetectorOffsets :
                      Defined(spreadFftsOutput',
                              SlotIndex(spreadFftsOutput', off))
          /\ lastCall'.result # "TypeError"]_vars

\* C16: one pass over a hop puts the new frame in the spread ring's slot at
\* the write cursor and advances the cursor and the written count; besides
\* that slot only the frames at cursor - 1, - 3 and - 6 (mod 256) may change,
\* and in the FFT ring only the slot doFft appended to.
C16_SpreadPassFrame ==
    [][lastCall'.op = "processInput" =>
          /\ spreadFftsOutput'.numWritten = spreadFftsOutput.numWritten + 1
          /\ spreadFftsOutput'.position
                = (spreadFftsOutput.position + 1) % FrameRingSize
          /\ spreadFftsOutput'.store[spreadFftsOutput.position + 1].ref
                = spreadFftsOutput'.numWritten
          /\ \A k \in 0..(FrameRingSize - 1) :
                k \notin {(spreadFftsOutput.position + d) % FrameRingSize :
                             d \in {0, -1, -3, -6}}
                => spreadFftsOutput'.store[k + 1] = spreadFftsOutput.store[k + 1]
          /\ \A k \in 0..(FrameRingSize - 1) :
                k # fftOutputs.position
                => fftOutputs'.store[k + 1] = fftOutputs.store[k + 1]]_vars

----------------------------------------------------------------------------
(* Further claims about the codec *)

AllPeaksFit(sig) ==
    \A k \in 1..Len(sig.frequencyBandToSoundPeaks) :
        \A j \in 1..Len(sig.frequencyBandToSoundPeaks[k].peaks) :
            /\ sig.frequencyBandToSoundPeaks[k].peaks[j].fftPassNumber
                  \in 0..255
            /\ sig.frequencyBandToSoundPeaks[k].peaks[j].peakMagnitude
                  \in 0..65535
            /\ sig.frequencyBandToSoundPeaks[k].peaks[j].correctedPeakFrequencyBin
                  \in 0..65535

C18_RecordsParsed ==
    (parsed.defect = "none" /\ codecSig.frequencyBandToSoundPeaks # <<>>) =>
        /\ parsed.result.thrown \in {"none", "DigestError", "InvalidHeader"}
        /\ PeakCount(U32(parsed.data, HeaderSize + 4))
              = U32(parsed.data, HeaderSize + 4) \div 5
        /\ \A j \in 0..((U32(parsed.data, HeaderSize + 4) \div 5) - 1) :
              PeakOffset(HeaderSize + 8, j) = HeaderSize + 8 + 5 * j
        /\ NextOffset(HeaderSize, U32(parsed.data, HeaderSize + 4))
              = HeaderSize + 8
                  + 4 * ((U32(parsed.data, HeaderSize + 4) + 3) \div 4)

\* C19: the word encodeToBinary writes at offset 28 is the SampleRate id of
\* the Signature's rate shifted left by 27, and decodeFromBinary recovers the
\* rate from such a word.
C19_RateWord ==
    /\ encoded # NotRun =>
          Shl27(codecSig.sampleRateHz)
              = LayoutRateId(codecSig, "none") * 134217728
    /\ encoded.thrown = "none" =>
          Word(encoded.bytes, 28) = <<0, 0, 0, 8 * LayoutRateId(codecSig, "none")>>
    /\ (parsed.defect = "none" /\ parsed.result.thrown = "none") =>
          parsed.result.sig.sampleRateHz = codecSig.sampleRateHz

----------------------------------------------------------------------------
(* Claims about the drain loop *)

\* C20: a getNextSignature call returns null or a Signature; one that
\* returns a Signature has consumed at least 128 samples not consumed before,
\* a call with at least 128 unconsumed samples does not return null, and
\* samplesProcessed never exceeds the number of samples fed.
C20_DrainProgress ==
    [][lastCall'.op = "getNextSignature" =>
          /\ lastCall'.result \in {"null", "signature"}
          /\ lastCall'.result = "signature" =>
                samplesProcessed' >= samplesProcessed + HopSize
          /\ lastCall'.result = "null" => Pending(Current) < HopSize
          /\ samplesProcessed' <= Len(inputPendingProcessing')]_vars

====
